---- MODULE Spec2Model ----
(***************************************************************************)
(* State-machine model of the My Voice survey application (src/app.py):    *)
(* the survey form (survey_form, save_response), the cached storage access *)
(* (init_connection, get_data) and the analytics dashboard                 *)
(* (analytics_dashboard and the two chart helpers).                        *)
(*                                                                         *)
(* Representation.  A Python str is the sequence of its pieces, so that    *)
(* startswith, endswith, `in`, strip and concatenation are computed and    *)
(* not assumed: "A" is <<"A">>, "" is <<>>, " " is <<" ">>, and the name   *)
(* "Q1_Retention_Transformation" is <<"Q","1","_","Retention",...>>.  A    *)
(* name that begins with the letter Q has that letter as its first piece.  *)
(* A dict is the sequence of its <<key, value>> pairs in insertion order.  *)
(* A timestamp is the number of its calendar day.                          *)
(***************************************************************************)
EXTENDS Integers, Sequences, FiniteSets, TLC

\* Cap on the number of records in the collection.
MaxRecords == 3
\* Last calendar day the clock reaches.
MaxDay == 2

VARIABLES
    secrets,            \* st.secrets["MONGODB_URI"]: "absent" | "invalid" | "valid"
    reachable,          \* whether the MongoDB server answers
    client,             \* st.cache_resource entry of init_connection: "unset" | "None" | "client"
    data_cache,         \* st.cache_data entry of get_data: <<>> (no entry) or <<[df, msgs]>>
    store,              \* the collection employee_survey.responses, in insertion order
    now,                \* calendar day of datetime.now()
    page,               \* page drawn by the last script run: "none" | "survey" | "analytics"
    session_id,         \* session id generated and shown by the last run of survey_form
    responses,          \* survey_form's responses dict in the last submit run
    custom_responses,   \* survey_form's custom_responses dict in the last submit run
    submit_result,      \* "none" | "invalid" | "saved" | "failed"
    errors,             \* the st.error messages shown by the last script run
    view,               \* how far analytics_dashboard got: "none" | "no_data" |
                        \* "raised_flatten" | "raised_metrics" | "raised_tab1" |
                        \* "raised_tab2" | "done"
    analysis_df,        \* the flattened frame
    selected_question,  \* the selectbox of tab1
    metrics,            \* the three percentages of the key metrics row
    response_counts,    \* value_counts of the selected column
    percentage,         \* the percentage shown for each option of response_counts
    sorted_concerns,    \* the concern ranking of tab2
    date_range,         \* the date_input of tab4
    session_filter,     \* the multiselect of tab4
    filtered_df         \* the rows displayed and exported by tab4

vars == <<secrets, reachable, client, data_cache, store, now, page, session_id,
          responses, custom_responses, submit_result, errors, view, analysis_df,
          selected_question, metrics, response_counts, percentage, sorted_concerns,
          date_range, session_filter, filtered_df>>

connVars == <<secrets, reachable, client, data_cache, store, now>>
formVars == <<session_id, responses, custom_responses, submit_result>>
envVars == <<secrets, reachable, now>>
dashVars == <<view, analysis_df, selected_question, metrics, response_counts, percentage,
              sorted_concerns, date_range, session_filter, filtered_df>>

-----------------------------------------------------------------------------
(* Strings and dicts *)

Str(s) == <<s>>
EmptyStr == <<>>
NaN == <<"<NaN>">>
Whitespace == {" "}

RECURSIVE lstrip(_)
lstrip(s) == IF s # <<>> /\ Head(s) \in Whitespace THEN lstrip(Tail(s)) ELSE s

RECURSIVE rstrip(_)
rstrip(s) ==
    IF s # <<>> /\ s[Len(s)] \in Whitespace THEN rstrip(SubSeq(s, 1, Len(s) - 1)) ELSE s

\* str.strip()
strip(s) == rstrip(lstrip(s))

\* bool(s) of a str
truthy(s) == s # <<>>

startswith(s, p) == Len(s) >= Len(p) /\ SubSeq(s, 1, Len(p)) = p
endswith(s, p) == Len(s) >= Len(p) /\ SubSeq(s, Len(s) - Len(p) + 1, Len(s)) = p
contains(s, piece) == \E i \in 1..Len(s) : s[i] = piece

Keys(d) == [i \in 1..Len(d) |-> d[i][1]]
KeySet(d) == {d[i][1] : i \in 1..Len(d)}
Has(d, k) == \E i \in 1..Len(d) : d[i][1] = k
Get(d, k) == d[CHOOSE i \in 1..Len(d) : d[i][1] = k][2]
Put(d, k, v) ==
    IF Has(d, k)
    THEN [i \in 1..Len(d) |-> IF d[i][1] = k THEN <<k, v>> ELSE d[i]]
    ELSE Append(d, <<k, v>>)

RECURSIVE Update(_, _)
Update(d, e) == IF e = <<>> THEN d ELSE Update(Put(d, Head(e)[1], Head(e)[2]), Tail(e))

RECURSIVE SumSeq(_)
SumSeq(s) == IF s = <<>> THEN 0 ELSE Head(s) + SumSeq(Tail(s))

-----------------------------------------------------------------------------
(* The static question list *)

QuestionId(n, topic) == <<"Q", n, "_">> \o topic

SURVEY_QUESTIONS ==
    << QuestionId("1", <<"Retention", "_", "Transformation">>),
       QuestionId("2", <<"Workload", "_", "Stress">>),
       QuestionId("3", <<"Decision", "_", "Making">>),
       QuestionId("4", <<"Input", "_", "Involvement">>),
       QuestionId("5", <<"Performance", "_", "Recognition">>),
       QuestionId("6", <<"Personal", "_", "Growth">>),
       QuestionId("7", <<"Tools", "_", "Resources">>),
       QuestionId("8", <<"Follow", "_", "up", "_", "Accountability">>),
       QuestionId("9", <<"Work", "_", "Environment">>),
       QuestionId("10", <<"Open", "_", "Communication">>),
       QuestionId("11", <<"AI", "_", "Future", "_", "Readiness">>),
       QuestionId("12", <<"Most", "_", "Important", "_", "Action">>) >>

QuestionIds == {SURVEY_QUESTIONS[i] : i \in 1..Len(SURVEY_QUESTIONS)}
QuestionIndex(q) == CHOOSE i \in 1..Len(SURVEY_QUESTIONS) : SURVEY_QUESTIONS[i] = q

\* The keys of every question's "options" dict.
OptionKeys == <<Str("A"), Str("B"), Str("C"), Str("D")>>
OptionKeySet == {OptionKeys[i] : i \in 1..Len(OptionKeys)}

OtherLabel == <<"Other", " ", "(please specify)">>
Other == Str("Other")

\* options_list of a question's radio
options_list == OptionKeys \o <<OtherLabel>>
RadioOptions == {options_list[i] : i \in 1..Len(options_list)}

\* question_id.split('_')[0][1:]
QuestionNumber(q) ==
    LET cut == CHOOSE i \in 1..Len(q) : q[i] = "_" /\ \A j \in 1..(i - 1) : q[j] # "_"
    IN  Tail(SubSeq(q, 1, cut - 1))

-----------------------------------------------------------------------------
(* Messages shown with st.error *)

ErrConnect == <<"Failed to connect to MongoDB">>
ErrFetch == <<"Failed to fetch data">>
ErrSave == <<"Failed to save response">>
ErrOops == <<"Oops! Something went wrong. Please try submitting again.">>
ErrCustom(q) == <<"Please provide your custom response for Question">> \o QuestionNumber(q)

-----------------------------------------------------------------------------
(* Storage access *)

\* init_connection behind st.cache_resource: the cached value is returned (and
\* the st.error it showed is replayed) without running the body again.
init_connection(cache, uri) ==
    IF cache # "unset"
    THEN [value |-> cache, cache |-> cache,
          msgs |-> IF cache = "None" THEN {ErrConnect} ELSE {}]
    ELSE IF uri = "valid"
         THEN [value |-> "client", cache |-> "client", msgs |-> {}]
         ELSE [value |-> "None", cache |-> "None", msgs |-> {ErrConnect}]

\* collection.insert_one: succeeds and appends, or raises.
insert_one(coll, reach, doc) ==
    IF reach THEN [raised |-> FALSE, coll |-> Append(coll, doc)]
             ELSE [raised |-> TRUE, coll |-> coll]

\* Variant of save_response that issues the insert a second time.
save_response_twice(cache, uri, reach, coll, response_data) ==
    LET conn == init_connection(cache, uri)
        ins == insert_one(insert_one(coll, reach, response_data).coll, reach, response_data)
    IN  IF conn.value = "None"
        THEN [ok |-> FALSE, coll |-> coll, cache |-> conn.cache, msgs |-> conn.msgs]
        ELSE IF ins.raised
             THEN [ok |-> FALSE, coll |-> ins.coll, cache |-> conn.cache,
                   msgs |-> conn.msgs \cup {ErrSave}]
             ELSE [ok |-> TRUE, coll |-> ins.coll, cache |-> conn.cache, msgs |-> conn.msgs]

save_response(cache, uri, reach, coll, response_data) ==
    LET conn == init_connection(cache, uri)
        ins == insert_one(coll, reach, response_data)
    IN  IF conn.value = "None"
        THEN [ok |-> FALSE, coll |-> coll, cache |-> conn.cache, msgs |-> conn.msgs]
        ELSE IF ins.raised
             THEN [ok |-> FALSE, coll |-> ins.coll, cache |-> conn.cache,
                   msgs |-> conn.msgs \cup {ErrSave}]
             ELSE [ok |-> TRUE, coll |-> ins.coll, cache |-> conn.cache, msgs |-> conn.msgs]

\* Variant of get_data that lets the failed fetch pass without st.error.
get_data_silent(dcache, cache, uri, reach, coll) ==
    IF dcache # <<>>
    THEN [df |-> dcache[1].df, msgs |-> dcache[1].msgs, cache |-> cache, dcache |-> dcache]
    ELSE LET conn == init_connection(cache, uri)
             got == IF conn.value = "None" THEN [df |-> <<>>, msgs |-> conn.msgs]
                    ELSE IF reach THEN [df |-> coll, msgs |-> conn.msgs]
                    ELSE [df |-> <<>>, msgs |-> conn.msgs]
         IN  [df |-> got.df, msgs |-> got.msgs, cache |-> conn.cache, dcache |-> <<got>>]

\* get_data behind st.cache_data: it takes no argument, so one entry serves
\* every later call.  A frame is the sequence of the documents found.
get_data(dcache, cache, uri, reach, coll) ==
    IF dcache # <<>>
    THEN [df |-> dcache[1].df, msgs |-> dcache[1].msgs, cache |-> cache, dcache |-> dcache]
    ELSE LET conn == init_connection(cache, uri)
             got == IF conn.value = "None" THEN [df |-> <<>>, msgs |-> conn.msgs]
                    ELSE IF reach THEN [df |-> coll, msgs |-> conn.msgs]
                    ELSE [df |-> <<>>, msgs |-> conn.msgs \cup {ErrFetch}]
         IN  [df |-> got.df, msgs |-> got.msgs, cache |-> conn.cache, dcache |-> <<got>>]

\* Variant of df.empty that never holds: the early return is not taken.
df_empty_never(df) == FALSE

\* df.empty of the fetched frame: every document has its four keys.
df_empty(df) == Len(df) = 0

-----------------------------------------------------------------------------
(* survey_form *)

\* Variant of the loop that stores the radio label as it was selected.
build_responses_label(radio) ==
    [i \in 1..Len(SURVEY_QUESTIONS) |-> <<SURVEY_QUESTIONS[i], radio[SURVEY_QUESTIONS[i]]>>]

\* The loop over SURVEY_QUESTIONS: responses[question_id]
build_responses(radio) ==
    [i \in 1..Len(SURVEY_QUESTIONS) |->
        <<SURVEY_QUESTIONS[i],
          IF radio[SURVEY_QUESTIONS[i]] = OtherLabel THEN Other
          ELSE radio[SURVEY_QUESTIONS[i]]>>]

\* The loop over SURVEY_QUESTIONS: custom_responses[question_id]
build_custom_responses(radio, text_area) ==
    [i \in 1..Len(SURVEY_QUESTIONS) |->
        <<SURVEY_QUESTIONS[i],
          IF radio[SURVEY_QUESTIONS[i]] = OtherLabel THEN text_area[SURVEY_QUESTIONS[i]]
          ELSE EmptyStr>>]

\* Variant of the validation loop that tests the text without strip().
validation_errors_unstripped(resp, cust) ==
    {q \in KeySet(resp) : Get(resp, q) = Other /\ ~truthy(Get(cust, q))}

\* The questions for which the validation loop reports an error.
validation_errors(resp, cust) ==
    {q \in KeySet(resp) : Get(resp, q) = Other /\ ~truthy(strip(Get(cust, q)))}

-----------------------------------------------------------------------------
(* Frames: pd.DataFrame(list of dicts) *)

SessionIdCol == <<"session", "_", "id">>
TimestampCol == <<"timestamp">>
DateCol == <<"date">>
CustomSuffix == <<"_", "custom">>

BlankFrame == [columns |-> <<>>, rows |-> <<>>]

NotIn(acc, ks) == SelectSeq(ks, LAMBDA k : ~contains(acc, k))

\* The columns are the keys in the order of their first appearance.
RECURSIVE ColumnsOf(_, _)
ColumnsOf(dicts, acc) ==
    IF dicts = <<>> THEN acc
    ELSE ColumnsOf(Tail(dicts), acc \o NotIn(acc, Keys(Head(dicts))))

\* The cells of one dict under the columns given; a key it lacks is NaN.
RECURSIVE RowOf(_, _)
RowOf(dict, cols) ==
    IF cols = <<>> THEN <<>>
    ELSE <<IF Has(dict, Head(cols)) THEN Get(dict, Head(cols)) ELSE NaN>>
         \o RowOf(dict, Tail(cols))

RECURSIVE RowsOf(_, _)
RowsOf(dicts, cols) ==
    IF dicts = <<>> THEN <<>> ELSE <<RowOf(Head(dicts), cols)>> \o RowsOf(Tail(dicts), cols)

\* pd.DataFrame(dicts): the columns, and each row as its cells in column order
DataFrame(dicts) == [columns |-> ColumnsOf(dicts, <<>>), rows |-> RowsOf(dicts, ColumnsOf(dicts, <<>>))]

ColumnSet(frame) == {frame.columns[j] : j \in 1..Len(frame.columns)}
ColumnIndex(frame, col) == CHOOSE j \in 1..Len(frame.columns) : frame.columns[j] = col

\* frame[col]
Column(frame, col) ==
    LET j == ColumnIndex(frame, col) IN [i \in 1..Len(frame.rows) |-> frame.rows[i][j]]

\* len(frame)
RowCount(frame) == Len(frame.rows)

\* len(frame[frame[col].isin(values)])
CountIn(frame, col, values) ==
    IF frame.rows = <<>> THEN 0
    ELSE LET j == ColumnIndex(frame, col)
         IN  Cardinality({i \in 1..Len(frame.rows) : frame.rows[i][j] \in values})

\* frame[frame[col].isin(values)]
RowsIn(frame, col, values) ==
    IF frame.rows = <<>> THEN frame
    ELSE LET j == ColumnIndex(frame, col)
         IN  [columns |-> frame.columns,
              rows |-> SelectSeq(frame.rows, LAMBDA r : r[j] \in values)]

\* frame[col].unique()
unique(frame, col) ==
    LET j == ColumnIndex(frame, col) IN {frame.rows[i][j] : i \in 1..Len(frame.rows)}

\* Variant of value_counts that counts the choice codes only.
value_counts_codes(frame, col) ==
    [v \in (unique(frame, col) \ {NaN}) \cap OptionKeySet |-> CountIn(frame, col, {v})]

\* frame[col].value_counts(): the values present (NaN dropped) with their counts
value_counts(frame, col) ==
    [v \in unique(frame, col) \ {NaN} |-> CountIn(frame, col, {v})]

\* count / total * 100, kept as the exact fraction <<numerator, denominator>>;
\* a denominator of 0 is Python's ZeroDivisionError.
Percentage(count, total) == <<count * 100, total>>

\* a / b < c / d for positive denominators
FracLess(x, y) == x[1] * y[2] < y[1] * x[2]
FracEq(x, y) == x[1] * y[2] = y[1] * x[2]

-----------------------------------------------------------------------------
(* analytics_dashboard: flattening *)

\* The loop over row['custom_responses'].items()
RECURSIVE add_custom(_, _)
add_custom(flat_row, cust) ==
    IF cust = <<>> THEN flat_row
    ELSE LET key == Head(cust)[1]
             value == Head(cust)[2]
         IN  add_custom(IF truthy(value) /\ truthy(strip(value))
                        THEN Put(flat_row, key \o CustomSuffix, value)
                        ELSE flat_row,
                        Tail(cust))

\* 'custom_responses' in row: row is a row of the fetched frame, whose index
\* holds every key that some fetched document has.
custom_responses_in_row(df) == \E i \in 1..Len(df) : "custom_responses" \in DOMAIN df[i]

\* row['custom_responses']: the document's dict, or NaN where the document
\* has no such key while another one has.
row_custom_responses(row) ==
    IF "custom_responses" \in DOMAIN row THEN row.custom_responses ELSE NaN

\* AttributeError of the flattening loop: .items() of a NaN.
raises_flatten(df) ==
    /\ custom_responses_in_row(df)
    /\ \E i \in 1..Len(df) : row_custom_responses(df[i]) = NaN

flat_row(row) ==
    add_custom(Update(<< <<SessionIdCol, row.session_id>>, <<TimestampCol, row.timestamp>> >>,
                      row.responses),
               IF "custom_responses" \in DOMAIN row THEN row.custom_responses ELSE <<>>)

RECURSIVE flattened_data(_)
flattened_data(df) ==
    IF df = <<>> THEN <<>> ELSE <<flat_row(Head(df))>> \o flattened_data(Tail(df))

-----------------------------------------------------------------------------
(* analytics_dashboard: aggregates *)

\* Literal question count of the satisfaction metric.
QuestionCount == 12
\* Length of the "Top 5 Areas of Concern" list.
TopConcerns == 5

\* [col for col in analysis_df.columns if col.startswith('Q')]
question_options(frame) == SelectSeq(frame.columns, LAMBDA col : startswith(col, <<"Q">>))

\* x / len(analysis_df) * 100 if len(analysis_df) > 0 else 0
guarded_pct(count, total) == IF total > 0 THEN Percentage(count, total) ELSE <<0, 1>>

retention_concern_pct(frame) ==
    guarded_pct(CountIn(frame, SURVEY_QUESTIONS[1], {Str("C"), Str("D")}), RowCount(frame))

high_stress_pct(frame) ==
    guarded_pct(CountIn(frame, SURVEY_QUESTIONS[2], {Str("C"), Str("D")}), RowCount(frame))

satisfaction_pct(frame) ==
    LET cols == question_options(frame)
        a_responses == SumSeq([j \in 1..Len(cols) |-> CountIn(frame, cols[j], {Str("A")})])
        total_responses == RowCount(frame) * QuestionCount
    IN  guarded_pct(a_responses, total_responses)

\* The percentage shown for every option of response_counts.
breakdown(counts, frame) ==
    [option \in DOMAIN counts |-> Percentage(counts[option], RowCount(frame))]

\* concern_scores, as the items of the dict in insertion order
concern_scores(frame) ==
    LET cols == question_options(frame)
    IN  [j \in 1..Len(cols) |->
            <<cols[j],
              Percentage(CountIn(frame, cols[j], {Str("C"), Str("D")}), RowCount(frame))>>]

\* Variant of the sort step that puts x ahead of the items of equal key.
RECURSIVE insert_sorted_unstable(_, _)
insert_sorted_unstable(s, x) ==
    IF s = <<>> THEN <<x>>
    ELSE IF ~FracLess(x[2], Head(s)[2]) THEN <<x>> \o s
    ELSE <<Head(s)>> \o insert_sorted_unstable(Tail(s), x)

\* One step of a stable descending sort: x goes after every item whose key is
\* not smaller than its own.
RECURSIVE insert_sorted(_, _)
insert_sorted(s, x) ==
    IF s = <<>> THEN <<x>>
    ELSE IF FracLess(Head(s)[2], x[2]) THEN <<x>> \o s
    ELSE <<Head(s)>> \o insert_sorted(Tail(s), x)

RECURSIVE sort_from(_, _)
sort_from(items, acc) ==
    IF items = <<>> THEN acc ELSE sort_from(Tail(items), insert_sorted(acc, Head(items)))

\* sorted(items, key=lambda x: x[1], reverse=True)
sorted_reverse(items) == sort_from(items, <<>>)

\* sorted_concerns[:5]
top_concerns(ranking) ==
    SubSeq(ranking, 1, IF Len(ranking) < TopConcerns THEN Len(ranking) ELSE TopConcerns)

\* analysis_df['date'] = pd.to_datetime(analysis_df['timestamp']).dt.date
RECURSIVE dated_rows(_, _)
dated_rows(rows, j) ==
    IF rows = <<>> THEN <<>>
    ELSE <<Append(Head(rows), Head(rows)[j])>> \o dated_rows(Tail(rows), j)

with_date(frame) ==
    IF frame.rows = <<>> \/ contains(frame.columns, DateCol) THEN frame
    ELSE [columns |-> Append(frame.columns, DateCol),
          rows |-> dated_rows(frame.rows, ColumnIndex(frame, TimestampCol))]

\* Variant of the filter that keeps every row.
apply_filters_none(frame, range, filter) == frame

\* analysis_df[analysis_df['session_id'].isin(session_filter)]
apply_filters(frame, range, filter) == RowsIn(frame, SessionIdCol, filter)

\* create_response_distribution_chart: the pie's values by name, or None
create_response_distribution_chart(frame, question_id) ==
    IF ~contains(frame.columns, question_id) THEN <<"None">>
    ELSE <<"pie", value_counts(frame, question_id)>>

\* create_overall_sentiment_chart: the three lists and sentiment_data['Count']
create_overall_sentiment_chart(frame) ==
    LET cols == SelectSeq(frame.columns,
                          LAMBDA col : startswith(col, <<"Q">>) /\ contains(col, "_"))
        positive_count(col) == CountIn(frame, col, {Str("A"), Str("B")})
        negative_count(col) == CountIn(frame, col, {Str("C"), Str("D")})
        positive == SelectSeq(cols, LAMBDA col : positive_count(col) > negative_count(col))
        negative == SelectSeq(cols, LAMBDA col : ~(positive_count(col) > negative_count(col))
                                               /\ negative_count(col) > positive_count(col))
        neutral == SelectSeq(cols, LAMBDA col : ~(positive_count(col) > negative_count(col))
                                              /\ ~(negative_count(col) > positive_count(col)))
    IN  [positive_questions |-> positive, neutral_questions |-> neutral,
         negative_questions |-> negative,
         Count |-> <<Len(positive), Len(neutral), Len(negative)>>]

-----------------------------------------------------------------------------
(* Script runs *)

NoSession == <<>>

\* The dashboard draws nothing while the survey page is shown.
DashboardBlank ==
    /\ view' = "none"
    /\ analysis_df' = BlankFrame
    /\ selected_question' = <<>>
    /\ metrics' = <<>>
    /\ response_counts' = <<>>
    /\ percentage' = <<>>
    /\ sorted_concerns' = <<>>
    /\ date_range' = <<>>
    /\ session_filter' = {}
    /\ filtered_df' = BlankFrame

\* survey_form without a submit: the form is drawn with a fresh session id.
SurveyRender(sid) ==
    /\ page' = "survey"
    /\ session_id' = sid
    /\ responses' = <<>>
    /\ custom_responses' = <<>>
    /\ submit_result' = "none"
    /\ errors' = {}
    /\ DashboardBlank
    /\ UNCHANGED <<envVars, client, data_cache, store>>

\* survey_form on the rerun the submit button triggers: a session id is
\* generated, the dicts are built from the widgets, then validation and save.
Submit(radio, text_area, sid) ==
    \E resp \in {build_responses(radio)} :
    \E cust \in {build_custom_responses(radio, text_area)} :
    \E incomplete \in {validation_errors(resp, cust)} :
    \E saved \in {save_response(client, secrets, reachable, store,
                                [session_id |-> sid, timestamp |-> now,
                                 responses |-> resp, custom_responses |-> cust])} :
        /\ Len(store) < MaxRecords
        /\ page' = "survey"
        /\ session_id' = sid
        /\ responses' = resp
        /\ custom_responses' = cust
        /\ IF incomplete # {}
           THEN /\ submit_result' = "invalid"
                /\ errors' = {ErrCustom(q) : q \in incomplete}
                /\ UNCHANGED <<store, client>>
           ELSE /\ submit_result' = IF saved.ok THEN "saved" ELSE "failed"
                /\ errors' = saved.msgs \cup (IF saved.ok THEN {} ELSE {ErrOops})
                /\ store' = saved.coll
                /\ client' = saved.cache
        /\ DashboardBlank
        /\ UNCHANGED <<envVars, data_cache>>

\* The return at "No survey data available yet".
NoData ==
    /\ view' = "no_data"
    /\ analysis_df' = BlankFrame
    /\ selected_question' = <<>>
    /\ metrics' = <<>>
    /\ response_counts' = <<>>
    /\ percentage' = <<>>
    /\ sorted_concerns' = <<>>
    /\ date_range' = <<>>
    /\ session_filter' = {}
    /\ filtered_df' = BlankFrame

\* The script stops at the AttributeError of the flattening loop.
RaisedFlatten ==
    /\ view' = "raised_flatten"
    /\ analysis_df' = BlankFrame
    /\ selected_question' = <<>>
    /\ metrics' = <<>>
    /\ response_counts' = <<>>
    /\ percentage' = <<>>
    /\ sorted_concerns' = <<>>
    /\ date_range' = <<>>
    /\ session_filter' = {}
    /\ filtered_df' = BlankFrame

\* KeyError of the key metrics: analysis_df['Q1_Retention_Transformation'] and
\* analysis_df['Q2_Workload_Stress'] of a frame without that column.
raises_metrics(frame) ==
    \/ ~contains(frame.columns, SURVEY_QUESTIONS[1])
    \/ ~contains(frame.columns, SURVEY_QUESTIONS[2])

\* KeyError of tab1: SURVEY_QUESTIONS[selected_question], or
\* question_data['options'][option] for a value that is no option key.
raises_tab1(sel, counts) ==
    \/ sel \notin QuestionIds
    \/ \E option \in DOMAIN counts : option # Other /\ option \notin OptionKeySet

\* KeyError of tab2: SURVEY_QUESTIONS[question] in the top-5 loop.
raises_tab2(ranking) ==
    \E i \in 1..Len(top_concerns(ranking)) : top_concerns(ranking)[i][1] \notin QuestionIds

\* The script stops at the KeyError of the key metrics.
RaisedMetrics(frame) ==
    /\ view' = "raised_metrics"
    /\ analysis_df' = frame
    /\ selected_question' = <<>>
    /\ metrics' = <<>>
    /\ response_counts' = <<>>
    /\ percentage' = <<>>
    /\ sorted_concerns' = <<>>
    /\ date_range' = <<>>
    /\ session_filter' = {}
    /\ filtered_df' = BlankFrame

\* The four metrics columns.
key_metrics(frame) ==
    [total_responses |-> RowCount(frame),
     retention_concern_pct |-> retention_concern_pct(frame),
     high_stress_pct |-> high_stress_pct(frame),
     satisfaction_pct |-> satisfaction_pct(frame)]

\* The four tabs, for the widget values given: counts is response_counts,
\* ranking is sorted_concerns, dated is the frame with its date column.
Tabs(frame, sel, counts, ranking, dated, range, filter) ==
    \E raised1 \in {raises_tab1(sel, counts)} :
    \E raised2 \in {raises_tab2(ranking)} :
        /\ selected_question' = sel
        /\ response_counts' = counts
        /\ percentage' = IF raised1 THEN <<>> ELSE breakdown(counts, frame)
        /\ sorted_concerns' = IF raised1 THEN <<>> ELSE ranking
        /\ view' = IF raised1 THEN "raised_tab1" ELSE IF raised2 THEN "raised_tab2" ELSE "done"
        /\ analysis_df' = IF raised1 \/ raised2 THEN frame ELSE dated
        /\ date_range' = IF raised1 \/ raised2 THEN <<>> ELSE range
        /\ session_filter' = IF raised1 \/ raised2 THEN {} ELSE filter
        /\ filtered_df' = IF raised1 \/ raised2 THEN BlankFrame
                          ELSE apply_filters(dated, range, filter)

\* value=(min date, max date) of the date_input
default_date_range(frame) ==
    LET days == unique(frame, TimestampCol)
    IN  <<CHOOSE d \in days : \A e \in days : d <= e,
          CHOOSE d \in days : \A e \in days : e <= d>>

DateRanges == {r \in (1..MaxDay) \X (1..MaxDay) : r[1] <= r[2]}

\* The columns of the selectbox the analyst picks from: the default (the first
\* option) when inspected is empty, else the columns of the questions in it.
Selectable(options, inspected) ==
    IF inspected = {} THEN {options[1]}
    ELSE {options[j] : j \in 1..Len(options)}
         \cap (inspected \cup {q \o CustomSuffix : q \in inspected})

\* analytics_dashboard.  inspected: the questions the analyst selects in tab1;
\* use_filters: whether the analyst moves the two filters of tab4 off their
\* default values.
Dashboard(inspected, use_filters) ==
    \E got \in {get_data(data_cache, client, secrets, reachable, store)} :
        /\ page' = "analytics"
        /\ client' = got.cache
        /\ data_cache' = got.dcache
        /\ errors' = got.msgs
        /\ session_id' = NoSession
        /\ responses' = <<>>
        /\ custom_responses' = <<>>
        /\ submit_result' = "none"
        /\ UNCHANGED <<envVars, store>>
        /\ IF df_empty(got.df) THEN NoData
           ELSE IF raises_flatten(got.df) THEN RaisedFlatten
           ELSE \E frame \in {DataFrame(flattened_data(got.df))} :
                IF raises_metrics(frame) THEN RaisedMetrics(frame)
                ELSE /\ metrics' = key_metrics(frame)
                     /\ \E ranking \in {sorted_reverse(concern_scores(frame))} :
                        \E dated \in {with_date(frame)} :
                        \E ids \in {unique(frame, SessionIdCol)} :
                        \E sel \in Selectable(question_options(frame), inspected) :
                        \E counts \in {value_counts(frame, sel)} :
                        \E range \in (IF use_filters THEN DateRanges
                                       ELSE {default_date_range(frame)}) :
                        \E filter \in (IF use_filters THEN SUBSET ids ELSE {ids}) :
                            Tabs(frame, sel, counts, ranking, dated, range, filter)

\* The server stops / starts answering.
Disconnect ==
    /\ reachable
    /\ reachable' = FALSE
    /\ UNCHANGED <<secrets, now, client, data_cache, store, page, errors, formVars, dashVars>>

Reconnect ==
    /\ ~reachable
    /\ reachable' = TRUE
    /\ UNCHANGED <<secrets, now, client, data_cache, store, page, errors, formVars, dashVars>>

\* Midnight passes.
Tick ==
    /\ now < MaxDay
    /\ now' = now + 1
    /\ UNCHANGED <<secrets, reachable, client, data_cache, store, page, errors, formVars, dashVars>>

-----------------------------------------------------------------------------
(* Inputs *)

SessionIds == {Str("3f2a9c1e"), Str("b07d44aa")}

\* Free texts typed into a text_area.
Texts == {EmptyStr, <<" ">>, <<"C">>}

\* Free text of the answers the reports are computed over: it reads as a
\* choice code.
ReportTexts == {<<"C">>}

\* The forms in which the radios of the questions in DOMAIN choices take the
\* values given and every other radio keeps its default, the first option.
Forms(choices, texts) ==
    {[radio |-> [q \in QuestionIds |-> IF q \in DOMAIN choices THEN r[q] ELSE options_list[1]],
      text_area |-> [q \in QuestionIds |-> IF q \in DOMAIN choices THEN t[q] ELSE EmptyStr]] :
        r \in {f \in [DOMAIN choices -> RadioOptions] : \A q \in DOMAIN choices : f[q] \in choices[q]},
        t \in [DOMAIN choices -> texts]}

IntakeForms ==
    Forms(SURVEY_QUESTIONS[1] :> {Str("A"), OtherLabel}
          @@ SURVEY_QUESTIONS[2] :> {Str("D"), OtherLabel},
          Texts)
IntakeSessionIds == {Str("3f2a9c1e")}

ReportForms ==
    Forms(SURVEY_QUESTIONS[1] :> {Str("A"), Str("C"), Str("D"), OtherLabel}
          @@ SURVEY_QUESTIONS[2] :> {Str("A"), Str("C")},
          ReportTexts)

DefaultForms == Forms(<<>>, {EmptyStr})

-----------------------------------------------------------------------------
(* Specifications *)

Blank ==
    /\ page = "none"
    /\ session_id = NoSession
    /\ responses = <<>>
    /\ custom_responses = <<>>
    /\ submit_result = "none"
    /\ errors = {}
    /\ view = "none"
    /\ analysis_df = BlankFrame
    /\ selected_question = <<>>
    /\ metrics = <<>>
    /\ response_counts = <<>>
    /\ percentage = <<>>
    /\ sorted_concerns = <<>>
    /\ date_range = <<>>
    /\ session_filter = {}
    /\ filtered_df = BlankFrame

\* The process starts with empty caches and an empty collection.
Init ==
    /\ secrets \in {"absent", "invalid", "valid"}
    /\ reachable \in BOOLEAN
    /\ client = "unset"
    /\ data_cache = <<>>
    /\ store = <<>>
    /\ now = 1
    /\ Blank

NewSurvey == \E sid \in IntakeSessionIds : SurveyRender(sid)

SubmitSurvey == \E form \in IntakeForms : \E sid \in IntakeSessionIds :
    Submit(form.radio, form.text_area, sid)

Analytics == Dashboard({}, FALSE)

Next == NewSurvey \/ SubmitSurvey \/ Analytics \/ Disconnect \/ Reconnect

\* The application with its storage, every interleaving of respondents,
\* analysts and connection failures.
Spec == Init /\ [][Next]_vars

InitConnected ==
    /\ secrets = "valid"
    /\ reachable = TRUE
    /\ client = "unset"
    /\ data_cache = <<>>
    /\ store = <<>>
    /\ now = 1
    /\ Blank

SubmitAnswers == \E form \in ReportForms :
    /\ data_cache = <<>>
    /\ Submit(form.radio, form.text_area, Str("3f2a9c1e"))

\* The questions whose columns the analyst inspects: the two the respondents
\* vary and one they leave at its default.
Inspected == {SURVEY_QUESTIONS[1], SURVEY_QUESTIONS[2], SURVEY_QUESTIONS[3]}

AnalyseQuestion == Dashboard(Inspected, FALSE)

NextReport == SubmitAnswers \/ AnalyseQuestion

\* Reporting over the answers: respondents submit, then the analyst opens the
\* dashboard and walks through the selectbox.
SpecReport == InitConnected /\ [][NextReport]_vars

SubmitDefaults == \E form \in DefaultForms : \E sid \in SessionIds :
    /\ data_cache = <<>>
    /\ Submit(form.radio, form.text_area, sid)

FilterRows == Dashboard({}, TRUE)

NextFilter == SubmitDefaults \/ Tick \/ FilterRows

\* Reporting over session ids and days: respondents submit on several days,
\* then the analyst works the filters of the raw-data tab.
SpecFilter == InitConnected /\ [][NextFilter]_vars

\* Free texts that read as the choice code A and as no choice code.
SatisfactionTexts == {<<"A">>, <<"Pay">>}

SatisfactionForms ==
    Forms(SURVEY_QUESTIONS[1] :> {Str("A"), Str("B"), OtherLabel}, SatisfactionTexts)

SubmitFreeText == \E form \in SatisfactionForms :
    /\ data_cache = <<>>
    /\ Submit(form.radio, form.text_area, Str("3f2a9c1e"))

ShowMetrics == Dashboard({}, FALSE)

NextSatisfaction == SubmitFreeText \/ ShowMetrics

\* The key metrics over answers with free text: respondents submit, then the
\* analyst opens the dashboard.
SpecSatisfaction == InitConnected /\ [][NextSatisfaction]_vars

\* Free text that reads as no choice code.
FlattenTexts == {<<"Pay">>}

FlattenForms ==
    Forms(SURVEY_QUESTIONS[1] :> {Str("A"), Str("C"), OtherLabel}, FlattenTexts)

SubmitWithText == \E form \in FlattenForms :
    /\ data_cache = <<>>
    /\ Submit(form.radio, form.text_area, Str("3f2a9c1e"))

\* A document of the variant of the survey that has no free text: it carries
\* no custom_responses key.  It is written to the collection by that variant,
\* not by this script.
ImportRecord == \E form \in DefaultForms :
    /\ data_cache = <<>>
    /\ Len(store) < MaxRecords
    /\ store' = Append(store, [session_id |-> Str("b07d44aa"), timestamp |-> now,
                               responses |-> build_responses(form.radio)])
    /\ UNCHANGED <<envVars, client, data_cache, page, errors, formVars, dashVars>>

FlattenRecords == Dashboard({}, FALSE)

NextFlatten == SubmitWithText \/ ImportRecord \/ FlattenRecords

\* Reporting over a collection that holds documents with and without the
\* custom_responses key.
SpecFlatten == InitConnected /\ [][NextFlatten]_vars

-----------------------------------------------------------------------------
(* Properties *)

\* A step that is a submit of the survey form.
SubmitStep == page' = "survey" /\ responses' # <<>> /\ UNCHANGED envVars

\* A step that is a run of the dashboard.
DashboardStep == page' = "analytics" /\ UNCHANGED <<envVars, store>>

\* Empty or whitespace-only free text.
IsBlankText(t) == \A i \in 1..Len(t) : t[i] \in Whitespace

\* The questions answered 'Other' without free text.
IncompleteOther(resp, cust) ==
    {q \in QuestionIds : Has(resp, q) /\ Get(resp, q) = Other /\ IsBlankText(Get(cust, q))}

RECURSIVE SumOver(_, _)
SumOver(f, S) ==
    IF S = {} THEN 0
    ELSE LET x == CHOOSE x \in S : TRUE IN f[x] + SumOver(f, S \ {x})

\* C1: a submit in which some question has 'Other' selected with empty or
\* whitespace-only free text fails validation: the store is left as it was
\* (no insert), and exactly the incomplete questions get an error message.
C1_IncompleteRejected ==
    [][(SubmitStep /\ IncompleteOther(responses', custom_responses') # {})
        => /\ store' = store
           /\ submit_result' = "invalid"
           /\ errors' = {ErrCustom(q) : q \in IncompleteOther(responses', custom_responses')}]_vars

\* C1 witness: a rejected submit with two incomplete questions, one of them
\* with whitespace-only text, after a record was stored.
C1_Witness ==
    /\ submit_result = "invalid"
    /\ Cardinality(errors) = 2
    /\ \E i \in 1..Len(custom_responses) : custom_responses[i][2] = <<" ">>
    /\ Len(store) >= 1

\* C2: every step changes the store by at most one appended record and leaves
\* the records already stored as they were; only a submit adds a record; a
\* submit reported as saved appended exactly the record it built, and a submit
\* that failed validation or whose insert failed appended none and showed an
\* error.
C2_OneRecordPerSubmit ==
    [][/\ \/ store' = store
          \/ /\ Len(store') = Len(store) + 1
             /\ SubSeq(store', 1, Len(store)) = store
       /\ store' # store => SubmitStep /\ submit_result' = "saved"
       /\ (SubmitStep /\ submit_result' = "saved")
            => /\ Len(store') = Len(store) + 1
               /\ store'[Len(store')] = [session_id |-> session_id', timestamp |-> now,
                                         responses |-> responses',
                                         custom_responses |-> custom_responses']
       /\ (SubmitStep /\ submit_result' # "saved")
            => store' = store /\ errors' # {}]_vars

\* C2 witness: a submit whose insert failed, with two records stored earlier.
C2_Witness == submit_result = "failed" /\ ErrSave \in errors /\ Len(store) = 2

\* C3: every stored record has an answer for every question of the static
\* list, and every answer is a choice code A-D or 'Other'.
C3_CompleteRecords ==
    \A i \in 1..Len(store) :
        /\ Keys(store[i].responses) = SURVEY_QUESTIONS
        /\ \A j \in 1..Len(store[i].responses) :
              store[i].responses[j][2] \in OptionKeySet \cup {Other}

\* C3 witness: stored records with an 'Other' answer and with a code other
\* than the default.
C3_Witness ==
    /\ \E i \in 1..Len(store) : Get(store[i].responses, SURVEY_QUESTIONS[1]) = Other
    /\ \E i \in 1..Len(store) : Get(store[i].responses, SURVEY_QUESTIONS[2]) = Str("D")

\* The connection is absent, misconfigured or unreachable.
Unavailable == secrets # "valid" \/ ~reachable

\* C4: while the connection is absent, misconfigured or unreachable, a submit
\* that passes validation is reported as failed with an error and inserts
\* nothing, and a dashboard run that fetches gets an empty record set, shows
\* an error and ends at the no-data return; neither stops at an exception.
C4_ConnectionFailuresDegrade ==
    [][/\ (SubmitStep /\ Unavailable /\ submit_result' # "invalid")
            => /\ submit_result' = "failed"
               /\ store' = store
               /\ ErrOops \in errors'
               /\ errors' \cap {ErrConnect, ErrSave} # {}
       /\ (DashboardStep /\ Unavailable /\ data_cache = <<>>)
            => /\ data_cache' # <<>>
               /\ data_cache'[1].df = <<>>
               /\ view' = "no_data"
               /\ errors' \cap {ErrConnect, ErrFetch} # {}]_vars

\* C4 witness: the dashboard fetched while the server did not answer, with a
\* record in the collection.
C4_Witness ==
    /\ page = "analytics"
    /\ view = "no_data"
    /\ ErrFetch \in errors
    /\ Len(store) >= 1

\* The denominators of the divisions by len(analysis_df) that carry no guard:
\* the breakdown of tab1 and the concern scores of tab2.
Denominators ==
    {percentage[o][2] : o \in DOMAIN percentage}
    \cup {sorted_concerns[i][2][2] : i \in 1..Len(sorted_concerns)}

\* The denominators of the key metrics, whose divisions are guarded.
MetricDenominators ==
    IF metrics = <<>> THEN {}
    ELSE {metrics.retention_concern_pct[2], metrics.high_stress_pct[2],
          metrics.satisfaction_pct[2]}

\* C5: a dashboard run over an empty fetched record set ends at the no-data
\* return and evaluates no aggregate; every percentage shown was divided by a
\* row count of at least 1; the standalone aggregates of the empty frame are
\* None and the counts 0, 0, 0.
C5_EmptySetIsNoData ==
    page = "analytics" =>
        /\ data_cache # <<>>
        /\ Len(data_cache[1].df) = 0 <=> view = "no_data"
        /\ view = "no_data" =>
              /\ Denominators = {}
              /\ MetricDenominators = {}
              /\ RowCount(analysis_df) = 0
              /\ RowCount(filtered_df) = 0
              /\ create_response_distribution_chart(analysis_df, SURVEY_QUESTIONS[1]) = <<"None">>
              /\ create_overall_sentiment_chart(analysis_df).Count = <<0, 0, 0>>
        /\ view # "no_data" =>
              /\ RowCount(analysis_df) >= 1
              /\ \A d \in Denominators : d = RowCount(analysis_df)
              /\ \A d \in MetricDenominators : d >= 1
        /\ view \in {"raised_tab2", "done"} =>
              /\ metrics # <<>>
              /\ DOMAIN percentage # {}
              /\ sorted_concerns # <<>>

\* C5 witness: the dashboard ran over an empty record set.
C5_Witness == page = "analytics" /\ view = "no_data" /\ errors = {}

\* The session ids of the rows of a frame.
SessionIdsOf(frame) ==
    IF frame.rows = <<>> THEN {} ELSE unique(frame, SessionIdCol)

C7_DateRangeApplied ==
    view = "done" =>
        \A i \in 1..RowCount(filtered_df) :
            LET day == filtered_df.rows[i][ColumnIndex(filtered_df, TimestampCol)]
            IN  date_range[1] <= day /\ day <= date_range[2]

\* The selected column has a value in every row.
EveryRowAnswered ==
    \A i \in 1..RowCount(analysis_df) : Column(analysis_df, selected_question)[i] # NaN

\* C8: when tab1 showed its breakdown and every row has a value for the
\* selected question, each option's count is the number of rows holding it,
\* the counts sum to the row count, each percentage is count / row count x 100
\* and the percentages sum to 100; three rows answering A, C, D give each of
\* them one count and one third.
C8_DistributionSumsToRowCount ==
    (view \in {"done", "raised_tab2"} /\ EveryRowAnswered) =>
        LET n == RowCount(analysis_df)
            col == Column(analysis_df, selected_question)
        IN  /\ \A o \in DOMAIN response_counts :
                  response_counts[o] = Cardinality({i \in 1..n : col[i] = o})
            /\ SumOver(response_counts, DOMAIN response_counts) = n
            /\ DOMAIN percentage = DOMAIN response_counts
            /\ \A o \in DOMAIN percentage : percentage[o] = <<response_counts[o] * 100, n>>
            /\ SumOver([o \in DOMAIN percentage |-> percentage[o][1]], DOMAIN percentage)
                  = 100 * n
            /\ col = <<Str("A"), Str("C"), Str("D")>>
                  => /\ response_counts = (Str("A") :> 1 @@ Str("C") :> 1 @@ Str("D") :> 1)
                     /\ \A o \in DOMAIN percentage : percentage[o] = <<100, 3>>

\* C8 witness: three records answering the first question with A, C, D.
C8_Witness ==
    /\ view = "done"
    /\ selected_question = SURVEY_QUESTIONS[1]
    /\ Column(analysis_df, selected_question) = <<Str("A"), Str("C"), Str("D")>>

\* Place of a column in the concern ranking.
RankOf(col) == CHOOSE i \in 1..Len(sorted_concerns) : sorted_concerns[i][1] = col

\* C9: the concern ranking lists every question once, with the score (rows
\* answering C or D) / row count x 100, in descending order of score, and two
\* questions of equal score stand in the order of the question list.
C9_ConcernRankingStable ==
    sorted_concerns # <<>> =>
        LET n == RowCount(analysis_df)
            score(q) == <<Cardinality({i \in 1..n :
                                         Column(analysis_df, q)[i] \in {Str("C"), Str("D")}}) * 100,
                          n>>
        IN  /\ \A q \in QuestionIds :
                  Cardinality({i \in 1..Len(sorted_concerns) : sorted_concerns[i][1] = q}) = 1
            /\ \A q \in QuestionIds : sorted_concerns[RankOf(q)][2] = score(q)
            /\ \A i, j \in 1..Len(sorted_concerns) :
                  i < j => ~FracLess(sorted_concerns[i][2], sorted_concerns[j][2])
            /\ \A i, j \in 1..Len(SURVEY_QUESTIONS) :
                  (i < j /\ FracEq(score(SURVEY_QUESTIONS[i]), score(SURVEY_QUESTIONS[j])))
                    => RankOf(SURVEY_QUESTIONS[i]) < RankOf(SURVEY_QUESTIONS[j])

\* C9 witness: the second question ranks first, ahead of the first, and the
\* first and the third tie behind it.
C9_Witness ==
    /\ view = "done"
    /\ sorted_concerns[1][1] = SURVEY_QUESTIONS[2]
    /\ sorted_concerns[2][1] = SURVEY_QUESTIONS[1]
    /\ sorted_concerns[3][1] = SURVEY_QUESTIONS[3]
    /\ FracLess(sorted_concerns[2][2], sorted_concerns[1][2])
    /\ FracEq(sorted_concerns[2][2], sorted_concerns[3][2])

\* Members of a sequence.
Members(seq) == {seq[i] : i \in 1..Len(seq)}

\* C10 as stated: over the flattened frame, every question of the static list
\* is in exactly the class its A/B and C/D counts give it, and the three
\* counts are the numbers of questions per class, summing to their number.
C10_EveryQuestionInOneClass ==
    analysis_df.rows # <<>> =>
        LET chart == create_overall_sentiment_chart(analysis_df)
            n == RowCount(analysis_df)
            pos(q) == Cardinality({i \in 1..n :
                                     Column(analysis_df, q)[i] \in {Str("A"), Str("B")}})
            neg(q) == Cardinality({i \in 1..n :
                                     Column(analysis_df, q)[i] \in {Str("C"), Str("D")}})
            Positive == {q \in QuestionIds : pos(q) > neg(q)}
            Concern == {q \in QuestionIds : neg(q) > pos(q)}
            Neutral == QuestionIds \ (Positive \cup Concern)
        IN  /\ Positive \subseteq Members(chart.positive_questions)
            /\ Concern \subseteq Members(chart.negative_questions)
            /\ Neutral \subseteq Members(chart.neutral_questions)
            /\ chart.Count = <<Cardinality(Positive), Cardinality(Neutral), Cardinality(Concern)>>
            /\ SumSeq(chart.Count) = Len(SURVEY_QUESTIONS)

\* C11 as stated: the satisfaction metric is the number of (row, question)
\* pairs, over the questions of the static list, whose choice code is A,
\* divided by row count x question count, x 100, and lies between 0 and 100.
C11_SatisfactionCountsChoiceCodes ==
    metrics # <<>> =>
        LET n == RowCount(analysis_df)
            a == Cardinality({pair \in (1..n) \X QuestionIds :
                                Column(analysis_df, pair[2])[pair[1]] = Str("A")})
        IN  /\ FracEq(metrics.satisfaction_pct, <<a * 100, n * Len(SURVEY_QUESTIONS)>>)
            /\ 0 <= metrics.satisfaction_pct[1]
            /\ metrics.satisfaction_pct[1] <= 100 * metrics.satisfaction_pct[2]

\* C12 as stated: the record a submit stores carries the session id that the
\* form showed when it was rendered, before the submit.
C12_SessionIdKept ==
    [][(SubmitStep /\ page = "survey" /\ session_id # NoSession /\ submit_result' = "saved")
        => store'[Len(store')].session_id = session_id]_vars

\* C13 as stated: a dashboard run made while the storage answers reports on
\* every record stored by then: no-data only for an empty collection, and
\* otherwise one row per stored record, in order, with its session id.
C13_ReportIncludesStoredRecords ==
    [][(DashboardStep /\ ~Unavailable)
        => IF store = <<>> THEN view' = "no_data"
           ELSE /\ view' # "no_data"
                /\ RowCount(analysis_df') = Len(store)
                /\ Column(analysis_df', SessionIdCol)
                     = [i \in 1..Len(store) |-> store[i].session_id]]_vars

\* The free text of question q in the fetched document doc, <<>> if none.
FreeTextOf(doc, q) ==
    IF "custom_responses" \in DOMAIN doc /\ Has(doc.custom_responses, q)
    THEN Get(doc.custom_responses, q) ELSE <<>>

\* C14 as stated: the dashboard flattens every non-empty fetched record set,
\* with or without custom_responses in its records, into one row per record
\* without raising, and row i has a value in column '<q>_custom' exactly when
\* record i has non-blank free text for q.
C14_FlatteningTotal ==
    (page = "analytics" /\ data_cache # <<>> /\ data_cache[1].df # <<>>) =>
        LET df == data_cache[1].df
        IN  /\ view # "raised_flatten"
            /\ RowCount(analysis_df) = Len(df)
            /\ \A i \in 1..Len(df) : \A q \in QuestionIds :
                  (/\ contains(analysis_df.columns, q \o CustomSuffix)
                   /\ Column(analysis_df, q \o CustomSuffix)[i] # NaN)
                  <=> ~IsBlankText(FreeTextOf(df[i], q))

\* C15 as stated: after a dashboard run over a non-empty record set, the
\* entries of the question selector, the selected entry and the entries of
\* the concern ranking are identifiers of the static question list, and no
\* lookup in SURVEY_QUESTIONS stopped the run.
C15_QuestionColumnsAreQuestions ==
    (page = "analytics" /\ analysis_df.rows # <<>>) =>
        /\ Members(question_options(analysis_df)) \subseteq QuestionIds
        /\ view \in {"raised_tab1", "raised_tab2", "done"} => selected_question \in QuestionIds
        /\ \A i \in 1..Len(sorted_concerns) : sorted_concerns[i][1] \in QuestionIds
        /\ view \notin {"raised_tab1", "raised_tab2"}

====
